---- MODULE Spec2Model ----
(***************************************************************************)
(* BoxRFID reader session manager: the NFCService session object           *)
(* (src/nfc-service.js) and the lazy factory, request coordinator and      *)
(* auto-detect loop of the process entry point (src/unnamed/part_001).     *)
(*                                                                         *)
(* Scheduling is the JavaScript event loop: a macrotask (an IPC request, a *)
(* timer tick, a driver event, the settling of a driver call) runs to its  *)
(* first await; the continuations that follow a settled driver call are    *)
(* microtasks and run before any other macrotask.                          *)
(***************************************************************************)
EXTENDS Integers, Sequences, FiniteSets

\* ---------------------------------------------------------------- bounds
NProcs == 2          \* slots for handler invocations suspended at an await
StartTime == 1       \* Date.now() at process start
MaxTime == 5001      \* the clock stops advancing here

\* ------------------------------------------------------ program constants
NFC_RETRY_AFTER_MS == 5000
BlockLen == 16

NULL == "null"
Procs == 1..NProcs
Cards == {"A", "B"}
\* a card object without a uid
NoUidCard == "blank"
Tags == Cards \cup {NoUidCard}
\* the {materialCode, colorCode, manufacturerCode} of the write requests
TypicalWrites == {<<5, 2, 1>>}
WriteRequests == TypicalWrites \cup {<<0, 1, 0>>}
\* the clock advances to just before, or to, the end of a backoff window
TimeSteps == {NFC_RETRY_AFTER_MS - 1, NFC_RETRY_AFTER_MS}
\* messages of the Error objects the driver rejects a call with
DriverMessages == {"DRIVER_ERROR"}
\* message of the TypeError of a property access on null
TypeErrorMessage == "TYPE_ERROR"
\* texts of the errors the driver reports through its error events
UnclassifiedTexts == {"transmit failed"}
DriverErrorTexts == UnclassifiedTexts \cup {"SCard_E_No_Service"}
CtorError == "CTOR_ERROR"

VARIABLES
  now,              \* Date.now()
  pcscAvailable,    \* whether require('./nfc-service') / new NFC() succeeds
  readerLive,       \* a reader object is attached and has its handlers
  readerCard,       \* reader.card of that reader object
  mem,              \* block 4 of every tag
  nfcService,       \* part_001: the session reference, NULL or ServiceRef
  nfcInitFailedAt,  \* part_001
  nfcInitLastErr,   \* part_001
  session,          \* the fields of the NFCService object
  isBusy,           \* part_001: coordinator flag
  autoEnabled,      \* part_001
  autoLoop,         \* part_001: the interval handle, NULL or TimerRef
  timers,           \* number of intervals set and not cleared
  lastAutoUID,      \* part_001
  ops,              \* the handler invocations suspended at an await
  reply,            \* what the handler run by the step returned (or threw)
  sent,             \* the rfid-auto-status payloads the step sent
  ctorCalled,       \* whether the step ran new NFCServiceCtor()
  failedCtorAt,     \* when the constructor last threw (0: never)
  written           \* per tag, the codes of the last write request that
                    \* reader.write carried out (<<>>: none)

envVars == <<now, pcscAvailable, readerLive, readerCard, mem, written>>
factoryVars == <<nfcService, nfcInitFailedAt, nfcInitLastErr>>
coordVars == <<isBusy, autoEnabled, autoLoop, timers, lastAutoUID>>
vars == <<now, pcscAvailable, readerLive, readerCard, mem, nfcService,
          nfcInitFailedAt, nfcInitLastErr, session, isBusy, autoEnabled,
          autoLoop, timers, lastAutoUID, ops, reply, sent, ctorCalled,
          failedCtorAt, written>>

ServiceRef == "NFCService"
ReaderRef == "reader"
ReaderGone == "ended"
TimerRef == "interval"

\* ------------------------------------------------------------ JS helpers
\* a || d on numbers: 0 is falsy
JsOr(a, d) == IF a = 0 THEN d ELSE a

\* parseInt(v, 10) of a non-negative integer: the digits of String(v) read
\* back in base 10
RECURSIVE Digits(_)
Digits(n) == IF n < 10 THEN <<n>> ELSE Append(Digits(n \div 10), n % 10)

RECURSIVE FromDigits(_)
FromDigits(ds) ==
  IF ds = <<>> THEN 0
  ELSE 10 * FromDigits(SubSeq(ds, 1, Len(ds) - 1)) + ds[Len(ds)]

parseInt(v) == FromDigits(Digits(v))

\* storing a number into a Buffer element keeps its low 8 bits
ToByte(v) == v % 256

ZeroBlock == [i \in 1..BlockLen |-> 0]

\* -------------------------------------------------------- NFCService
NewNFCService ==
  [isConnected |-> FALSE, currentReader |-> NULL, lastUID |-> NULL,
   lastError |-> NULL, lastErrorCode |-> NULL, lastErrorAt |-> 0,
   _busy |-> FALSE]

\* msg.toUpperCase() of the driver's error texts
toUpperCase(msg) ==
  CASE msg = "SCard_E_No_Service" -> "SCARD_E_NO_SERVICE"
    [] msg = "transmit failed" -> "TRANSMIT FAILED"
    [] OTHER -> msg

\* the signatures that occur in an upper-cased text
Signatures(upper) ==
  CASE upper = "SCARD_E_NO_SERVICE" -> {"SCARD_E_NO_SERVICE"}
    [] OTHER -> {}

\* upper.includes(sig)
includes(upper, sig) == sig \in Signatures(upper)

_setError(s, err) ==
  IF err = NULL
  THEN [s EXCEPT !.lastError = NULL, !.lastErrorCode = NULL, !.lastErrorAt = 0]
  ELSE LET upper == toUpperCase(err)
           code == IF includes(upper, "SCARD_E_NO_SERVICE")
                      \/ includes(upper, "SERVICE NOT RUNNING")
                   THEN "PCSC_SERVICE_NOT_RUNNING"
                   ELSE IF includes(upper, "SCARD_E_NO_READERS_AVAILABLE")
                           \/ includes(upper, "NO READERS AVAILABLE")
                        THEN "NO_READERS"
                        ELSE "UNKNOWN"
       IN [s EXCEPT !.lastError = err, !.lastErrorCode = code,
                    !.lastErrorAt = now]

getCurrentUID(s) == s.lastUID

getStatus(s) ==
  [req |-> "status",
   connected |-> s.isConnected,
   readerName |-> IF s.currentReader # NULL THEN "ACR122" ELSE NULL,
   cardPresent |-> (s.currentReader # NULL /\ readerCard # NULL),
   uid |-> s.lastUID,
   errorCode |-> s.lastErrorCode,
   errorMessage |-> s.lastError,
   errorAt |-> s.lastErrorAt]

VendorKey == "D3F7D3F7D3F7"
DefaultKey == "FFFFFFFFFFFF"

\* the key sequence with the factory-default key first
keysDefaultFirst == <<DefaultKey, VendorKey>>

\* the key sequence of _authenticateBlock
keys == <<"D3F7D3F7D3F7", "FFFFFFFFFFFF">>

\* readTag / writeTag without their check of this.currentReader
LockedEntryNoReaderCheck(s) == IF s._busy THEN "Busy" ELSE "ok"

\* readTag / writeTag up to the first await: the reader check, then
\* _withLock's check ("ok" means the lock is taken and authenticate issued)
LockedEntry(s) ==
  IF s.currentReader = NULL THEN "NFC_NOT_CONNECTED"
  ELSE IF s._busy THEN "Busy"
  ELSE "ok"

\* readTag's decoding of the bytes read
Decode(data) ==
  [material |-> JsOr(data[1], 0),
   color |-> JsOr(data[2], 0),
   manufacturer |-> JsOr(data[3], 1),
   rawData |-> data]

\* writeTag's buffer
WriteBuffer(materialCode, colorCode, manufacturerCode) ==
  [ZeroBlock EXCEPT ![1] = ToByte(JsOr(materialCode, 0)),
                    ![2] = ToByte(JsOr(colorCode, 0)),
                    ![3] = ToByte(JsOr(manufacturerCode, 1))]

\* ------------------------------------------------------- lazy factory
\* getNfcService with the backoff window closed at its end: <= for <
getNfcServiceOffByOne(forceRetry) ==
  IF nfcService # NULL
  THEN [ok |-> TRUE, attempted |-> FALSE, ref |-> nfcService,
        failedAt |-> nfcInitFailedAt, lastErr |-> nfcInitLastErr,
        session |-> session]
  ELSE IF ~forceRetry /\ nfcInitFailedAt # 0
          /\ (now - nfcInitFailedAt) <= NFC_RETRY_AFTER_MS
  THEN [ok |-> FALSE, attempted |-> FALSE, ref |-> nfcService,
        failedAt |-> nfcInitFailedAt, lastErr |-> nfcInitLastErr,
        session |-> session]
  ELSE IF pcscAvailable
  THEN [ok |-> TRUE, attempted |-> TRUE, ref |-> ServiceRef,
        failedAt |-> 0, lastErr |-> NULL, session |-> NewNFCService]
  ELSE [ok |-> FALSE, attempted |-> TRUE, ref |-> NULL,
        failedAt |-> now, lastErr |-> CtorError, session |-> session]

\* getNfcService returning the session only while its reader is connected,
\* and constructing another one otherwise
getNfcServiceWhileConnected(forceRetry) ==
  IF nfcService # NULL /\ session.isConnected
  THEN [ok |-> TRUE, attempted |-> FALSE, ref |-> nfcService,
        failedAt |-> nfcInitFailedAt, lastErr |-> nfcInitLastErr,
        session |-> session]
  ELSE IF ~forceRetry /\ nfcInitFailedAt # 0
          /\ (now - nfcInitFailedAt) < NFC_RETRY_AFTER_MS
  THEN [ok |-> FALSE, attempted |-> FALSE, ref |-> nfcService,
        failedAt |-> nfcInitFailedAt, lastErr |-> nfcInitLastErr,
        session |-> session]
  ELSE IF pcscAvailable
  THEN [ok |-> TRUE, attempted |-> TRUE, ref |-> ServiceRef,
        failedAt |-> 0, lastErr |-> NULL, session |-> NewNFCService]
  ELSE [ok |-> FALSE, attempted |-> TRUE, ref |-> NULL,
        failedAt |-> now, lastErr |-> CtorError, session |-> session]

\* getNfcService(options): what it returns or throws, whether it ran the
\* constructor, and the factory state and session it leaves
getNfcService(forceRetry) ==
  IF nfcService # NULL
  THEN [ok |-> TRUE, attempted |-> FALSE, ref |-> nfcService,
        failedAt |-> nfcInitFailedAt, lastErr |-> nfcInitLastErr,
        session |-> session]
  ELSE IF ~forceRetry /\ nfcInitFailedAt # 0
          /\ (now - nfcInitFailedAt) < NFC_RETRY_AFTER_MS
  THEN [ok |-> FALSE, attempted |-> FALSE, ref |-> nfcService,
        failedAt |-> nfcInitFailedAt, lastErr |-> nfcInitLastErr,
        session |-> session]
  ELSE IF pcscAvailable
  THEN [ok |-> TRUE, attempted |-> TRUE, ref |-> ServiceRef,
        failedAt |-> 0, lastErr |-> NULL, session |-> NewNFCService]
  ELSE [ok |-> FALSE, attempted |-> TRUE, ref |-> NULL,
        failedAt |-> now, lastErr |-> CtorError, session |-> session]

\* the lookup of the status request and of the tick done with
\* getNfcService(), as the entry point without lazy initialisation does
tryGetNfcServiceConstructs == getNfcService(FALSE)

\* tryGetNfcService(), in the shape of getNfcService's result: it never
\* throws and never constructs
tryGetNfcService ==
  [ok |-> nfcService # NULL, attempted |-> FALSE, ref |-> nfcService,
   failedAt |-> nfcInitFailedAt, lastErr |-> nfcInitLastErr,
   session |-> session]

\* the assignments getNfcService makes, and the record of its constructor call
ApplyGet(g) ==
  /\ nfcService' = g.ref
  /\ nfcInitFailedAt' = g.failedAt
  /\ nfcInitLastErr' = g.lastErr
  /\ ctorCalled' = g.attempted
  /\ failedCtorAt' = IF g.attempted /\ ~g.ok THEN now ELSE failedCtorAt

toMessageKey(msg) ==
  CASE msg = "Busy" -> "busy"
    [] msg = "NFC_NOT_CONNECTED" -> "nfcNotConnected"
    [] msg = "NFC_AUTH_FAILED" -> "nfcAuthFailed"
    [] OTHER -> "unknownError"

\* ------------------------------------------------------------- replies
NoReply == [req |-> "none"]
BusyReply(req) == [req |-> req, success |-> FALSE, messageKey |-> "busy"]
FailReply(req, msg) ==
  [req |-> req, success |-> FALSE, messageKey |-> toMessageKey(msg),
   details |-> msg]
NoData == <<>>
Payload(present, tagData, error) ==
  [present |-> present, tagData |-> tagData, error |-> error]

\* ------------------------------------------------- suspended invocations
IdleOp ==
  [kind |-> "none", pc |-> "idle", key |-> 0, reader |-> NULL, uid |-> NULL,
   args |-> <<>>, buf |-> <<>>, tried |-> <<>>, answers |-> <<>>,
   ok |-> FALSE, err |-> NULL, data |-> NoData, card |-> NULL]

\* an invocation that has taken the session lock and issued
\* reader.authenticate with the first key
StartedOp(kind, uid, args, buf) ==
  [IdleOp EXCEPT !.kind = kind, !.pc = "auth", !.key = 1,
                 !.reader = ReaderRef, !.uid = uid, !.args = args,
                 !.buf = buf, !.tried = <<keys[1]>>]

\* continuations of a settled driver call are queued: no macrotask runs
MicrotaskPending == \E p \in Procs : ops[p].pc \in {"unlock", "deliver"}

FreeSlot(p) ==
  /\ ops[p].pc = "idle"
  /\ \A q \in Procs : q < p => ops[q].pc # "idle"

Init ==
  /\ now = StartTime
  /\ pcscAvailable \in BOOLEAN
  /\ readerLive = FALSE
  /\ readerCard = NULL
  /\ mem = [c \in Tags |-> ZeroBlock]
  /\ nfcService = NULL
  /\ nfcInitFailedAt = 0
  /\ nfcInitLastErr = NULL
  /\ session = NewNFCService
  /\ isBusy = FALSE
  /\ autoEnabled = FALSE
  /\ autoLoop = NULL
  /\ timers = 0
  /\ lastAutoUID = NULL
  /\ ops = [p \in Procs |-> IdleOp]
  /\ reply = NoReply
  /\ sent = <<>>
  /\ ctorCalled = FALSE
  /\ failedCtorAt = 0
  /\ written = [c \in Tags |-> <<>>]

NoOutput ==
  /\ reply' = NoReply
  /\ sent' = <<>>
  /\ ctorCalled' = FALSE
  /\ failedCtorAt' = failedCtorAt

\* ------------------------------------------------------- environment
Advance(d) ==
  /\ ~MicrotaskPending
  /\ now + d <= MaxTime
  /\ now' = now + d
  /\ NoOutput
  /\ UNCHANGED <<pcscAvailable, readerLive, readerCard, mem, written, factoryVars,
                 session, coordVars, ops>>

\* the PC/SC stack becomes loadable, or stops being so
PcscChange ==
  /\ ~MicrotaskPending
  /\ nfcService = NULL
  /\ pcscAvailable' = ~pcscAvailable
  /\ NoOutput
  /\ UNCHANGED <<now, readerLive, readerCard, mem, written, factoryVars, session,
                 coordVars, ops>>

\* nfc.on('reader')
ReaderAppeared ==
  /\ ~MicrotaskPending
  /\ nfcService # NULL
  /\ ~readerLive
  /\ readerLive' = TRUE
  /\ readerCard' = NULL
  /\ session' = _setError([session EXCEPT !.currentReader = ReaderRef,
                                          !.isConnected = TRUE], NULL)
  /\ NoOutput
  /\ UNCHANGED <<now, pcscAvailable, mem, written, factoryVars, coordVars, ops>>

\* card?.uid || null
CardUid(card) == IF card = NoUidCard THEN NULL ELSE card

\* reader.on('card')
CardInserted(card) ==
  /\ ~MicrotaskPending
  /\ readerLive
  /\ readerCard = NULL
  /\ session' = [session EXCEPT !.lastUID = CardUid(card)]
  /\ readerCard' = card
  /\ NoOutput
  /\ UNCHANGED <<now, pcscAvailable, readerLive, mem, written, factoryVars,
                 coordVars, ops>>

\* reader.on('card.off')
CardRemoved ==
  /\ ~MicrotaskPending
  /\ readerLive
  /\ readerCard # NULL
  /\ session' = [session EXCEPT !.lastUID = NULL]
  /\ readerCard' = NULL
  /\ NoOutput
  /\ UNCHANGED <<now, pcscAvailable, readerLive, mem, written, factoryVars,
                 coordVars, ops>>

\* reader.on('error') treating the reader as lost, as nfc.on('error') does
ReaderErrorDisconnects(err) ==
  /\ ~MicrotaskPending
  /\ readerLive
  /\ session' = _setError([session EXCEPT !.isConnected = FALSE,
                                          !.currentReader = NULL,
                                          !.lastUID = NULL], err)
  /\ NoOutput
  /\ UNCHANGED <<envVars, factoryVars, coordVars, ops>>

\* reader.on('error')
ReaderError(err) ==
  /\ ~MicrotaskPending
  /\ readerLive
  /\ session' = _setError(session, err)
  /\ NoOutput
  /\ UNCHANGED <<envVars, factoryVars, coordVars, ops>>

\* reader.on('end'): the reader object is gone for whoever still holds it
ReaderEnd ==
  /\ ~MicrotaskPending
  /\ readerLive
  /\ session' = [session EXCEPT !.isConnected = FALSE,
                                !.currentReader = NULL, !.lastUID = NULL]
  /\ readerLive' = FALSE
  /\ readerCard' = NULL
  /\ ops' = [p \in Procs |->
               IF ops[p].reader = ReaderRef
               THEN [ops[p] EXCEPT !.reader = ReaderGone] ELSE ops[p]]
  /\ NoOutput
  /\ UNCHANGED <<now, pcscAvailable, mem, written, factoryVars, coordVars>>

\* nfc.on('error')
NfcError(err) ==
  /\ ~MicrotaskPending
  /\ nfcService # NULL
  /\ session' = _setError([session EXCEPT !.isConnected = FALSE,
                                          !.currentReader = NULL,
                                          !.lastUID = NULL], err)
  /\ NoOutput
  /\ UNCHANGED <<envVars, factoryVars, coordVars, ops>>

\* ------------------------------------------------- request coordinator
\* the setTimeout of ready-to-show: getNfcService({forceRetry: false}),
\* whatever it throws swallowed
ReadyToShowInit ==
  /\ ~MicrotaskPending
  /\ LET g == getNfcService(FALSE)
     IN /\ ApplyGet(g)
        /\ session' = g.session
        /\ reply' = [req |-> "ready-to-show", threw |-> ~g.ok]
  /\ sent' = <<>>
  /\ UNCHANGED <<envVars, coordVars, ops>>

\* a request handler written without the coordinator's busy check and
\* without the session lock
ManualRequestUnguarded(p, req, args, buf) ==
  /\ ~MicrotaskPending
  /\ FreeSlot(p)
  /\ sent' = <<>>
  /\ LET g == getNfcService(TRUE)
     IN /\ ApplyGet(g)
        /\ IF g.ok /\ g.session.currentReader # NULL
           THEN /\ session' = [g.session EXCEPT !._busy = TRUE]
                /\ isBusy' = TRUE
                /\ ops' = [ops EXCEPT ![p] = StartedOp(req, NULL, args, buf)]
                /\ reply' = NoReply
           ELSE /\ session' = g.session
                /\ isBusy' = FALSE
                /\ ops' = ops
                /\ reply' = FailReply(req, "NFC_NOT_CONNECTED")
        /\ UNCHANGED <<envVars, autoEnabled, autoLoop, timers, lastAutoUID>>

\* the request handlers with the busy check inside the try, so that the
\* finally clears the flag of whoever holds it
ManualRequestBusyInTry(p, req, args, buf) ==
  /\ ~MicrotaskPending
  /\ FreeSlot(p)
  /\ sent' = <<>>
  /\ IF isBusy
     THEN /\ reply' = BusyReply(req)
          /\ ctorCalled' = FALSE
          /\ isBusy' = FALSE
          /\ UNCHANGED <<envVars, factoryVars, session, autoEnabled, autoLoop,
                         timers, lastAutoUID, ops, failedCtorAt>>
     ELSE LET g == getNfcService(TRUE)
              entry == IF g.ok THEN LockedEntry(g.session)
                       ELSE "NFC_NOT_CONNECTED"
          IN /\ ApplyGet(g)
             /\ IF entry = "ok"
                THEN /\ session' = [g.session EXCEPT !._busy = TRUE]
                     /\ isBusy' = TRUE
                     /\ ops' = [ops EXCEPT ![p] = StartedOp(req, NULL, args, buf)]
                     /\ reply' = NoReply
                ELSE /\ session' = g.session
                     /\ isBusy' = FALSE
                     /\ ops' = ops
                     /\ reply' = FailReply(req, entry)
             /\ UNCHANGED <<envVars, autoEnabled, autoLoop, timers,
                            lastAutoUID>>

\* ipcMain.handle('rfid-write') and ipcMain.handle('rfid-read') up to the
\* first await, or to their return when nothing is awaited
ManualRequest(p, req, args, buf) ==
  /\ ~MicrotaskPending
  /\ FreeSlot(p)
  /\ sent' = <<>>
  /\ IF isBusy
     THEN /\ reply' = BusyReply(req)
          /\ ctorCalled' = FALSE
          /\ UNCHANGED <<envVars, factoryVars, session, coordVars, ops,
                         failedCtorAt>>
     ELSE LET g == getNfcService(TRUE)
              entry == IF g.ok THEN LockedEntry(g.session)
                       ELSE "NFC_NOT_CONNECTED"
          IN /\ ApplyGet(g)
             /\ IF entry = "ok"
                THEN /\ session' = [g.session EXCEPT !._busy = TRUE]
                     /\ isBusy' = TRUE
                     /\ ops' = [ops EXCEPT ![p] = StartedOp(req, NULL, args, buf)]
                     /\ reply' = NoReply
                ELSE /\ session' = g.session
                     /\ isBusy' = FALSE
                     /\ ops' = ops
                     /\ reply' = FailReply(req, entry)
             /\ UNCHANGED <<envVars, autoEnabled, autoLoop, timers,
                            lastAutoUID>>

RfidRead(p) == ManualRequest(p, "read", <<>>, <<>>)

RfidWrite(p, materialCode, colorCode, manufacturerCode) ==
  ManualRequest(p, "write",
                <<materialCode, colorCode, manufacturerCode>>,
                WriteBuffer(parseInt(materialCode), parseInt(colorCode),
                            parseInt(JsOr(manufacturerCode, 1))))

\* what ipcMain.handle('rfid-status') returns, g being what its lookup of
\* the session gave
StatusReply(g) ==
  IF ~g.ok
  THEN [req |-> "status", connected |-> FALSE, readerName |-> NULL,
        cardPresent |-> FALSE, uid |-> NULL]
  ELSE getStatus(g.session)

\* ipcMain.handle('rfid-status')
RfidStatus ==
  /\ ~MicrotaskPending
  /\ LET g == tryGetNfcService
     IN /\ ApplyGet(g)
        /\ session' = g.session
        /\ reply' = StatusReply(g)
  /\ sent' = <<>>
  /\ UNCHANGED <<envVars, coordVars, ops>>

\* startAutoLoop without its `if (autoLoop) return`
startAutoLoopUnguarded ==
  [loop |-> TimerRef,
   timers |-> timers + 1]

\* ------------------------------------------------------ auto-detect loop
startAutoLoop ==
  [loop |-> TimerRef,
   timers |-> IF autoLoop # NULL THEN timers ELSE timers + 1]

stopAutoLoop ==
  [loop |-> NULL,
   timers |-> IF autoLoop # NULL THEN timers - 1 ELSE timers]

\* ipcMain.handle('rfid-auto') whose catch leaves autoEnabled as the request
\* set it
RfidAutoStaysEnabled(p, enable) ==
  /\ ~MicrotaskPending
  /\ FreeSlot(p)
  /\ IF enable
     THEN LET g == getNfcService(TRUE)
              uid == getCurrentUID(g.session)
              entry == LockedEntry(g.session)
          IN /\ ApplyGet(g)
             /\ IF ~g.ok
                THEN /\ autoEnabled' = TRUE
                     /\ autoLoop' = stopAutoLoop.loop
                     /\ timers' = stopAutoLoop.timers
                     /\ lastAutoUID' = NULL
                     /\ sent' = <<Payload(FALSE, NoData, "NFC_NOT_CONNECTED")>>
                     /\ reply' = [req |-> "auto", enabled |-> FALSE,
                                  messageKey |-> "nfcNotConnected"]
                     /\ session' = g.session
                     /\ UNCHANGED <<isBusy, ops>>
                ELSE /\ autoEnabled' = TRUE
                     /\ autoLoop' = startAutoLoop.loop
                     /\ timers' = startAutoLoop.timers
                     /\ lastAutoUID' = lastAutoUID
                     /\ IF uid # NULL /\ ~isBusy
                        THEN IF entry = "ok"
                             THEN /\ session' = [g.session EXCEPT !._busy = TRUE]
                                  /\ isBusy' = TRUE
                                  /\ ops' = [ops EXCEPT ![p] =
                                               StartedOp("auto", uid, <<>>, <<>>)]
                                  /\ sent' = <<>>
                                  /\ reply' = NoReply
                             ELSE /\ session' = g.session
                                  /\ isBusy' = FALSE
                                  /\ ops' = ops
                                  /\ sent' = <<Payload(TRUE, NoData, entry)>>
                                  /\ reply' = [req |-> "auto", enabled |-> TRUE]
                        ELSE /\ session' = g.session
                             /\ sent' = <<>>
                             /\ reply' = [req |-> "auto", enabled |-> TRUE]
                             /\ UNCHANGED <<isBusy, ops>>
     ELSE /\ autoEnabled' = FALSE
          /\ autoLoop' = stopAutoLoop.loop
          /\ timers' = stopAutoLoop.timers
          /\ lastAutoUID' = NULL
          /\ sent' = <<Payload(FALSE, NoData, NULL)>>
          /\ reply' = [req |-> "auto", enabled |-> FALSE]
          /\ ctorCalled' = FALSE
          /\ UNCHANGED <<factoryVars, session, isBusy, ops, failedCtorAt>>
  /\ UNCHANGED envVars

\* ipcMain.handle('rfid-auto') up to its first await or its return
RfidAuto(p, enable) ==
  /\ ~MicrotaskPending
  /\ FreeSlot(p)
  /\ IF enable
     THEN LET g == getNfcService(TRUE)
              uid == getCurrentUID(g.session)
              entry == LockedEntry(g.session)
          IN /\ ApplyGet(g)
             /\ IF ~g.ok
                THEN /\ autoEnabled' = FALSE
                     /\ autoLoop' = stopAutoLoop.loop
                     /\ timers' = stopAutoLoop.timers
                     /\ lastAutoUID' = NULL
                     /\ sent' = <<Payload(FALSE, NoData, "NFC_NOT_CONNECTED")>>
                     /\ reply' = [req |-> "auto", enabled |-> FALSE,
                                  messageKey |-> "nfcNotConnected"]
                     /\ session' = g.session
                     /\ UNCHANGED <<isBusy, ops>>
                ELSE /\ autoEnabled' = TRUE
                     /\ autoLoop' = startAutoLoop.loop
                     /\ timers' = startAutoLoop.timers
                     /\ lastAutoUID' = lastAutoUID
                     /\ IF uid # NULL /\ ~isBusy
                        THEN IF entry = "ok"
                             THEN /\ session' = [g.session EXCEPT !._busy = TRUE]
                                  /\ isBusy' = TRUE
                                  /\ ops' = [ops EXCEPT ![p] =
                                               StartedOp("auto", uid, <<>>, <<>>)]
                                  /\ sent' = <<>>
                                  /\ reply' = NoReply
                             ELSE /\ session' = g.session
                                  /\ isBusy' = FALSE
                                  /\ ops' = ops
                                  /\ sent' = <<Payload(TRUE, NoData, entry)>>
                                  /\ reply' = [req |-> "auto", enabled |-> TRUE]
                        ELSE /\ session' = g.session
                             /\ sent' = <<>>
                             /\ reply' = [req |-> "auto", enabled |-> TRUE]
                             /\ UNCHANGED <<isBusy, ops>>
     ELSE /\ autoEnabled' = FALSE
          /\ autoLoop' = stopAutoLoop.loop
          /\ timers' = stopAutoLoop.timers
          /\ lastAutoUID' = NULL
          /\ sent' = <<Payload(FALSE, NoData, NULL)>>
          /\ reply' = [req |-> "auto", enabled |-> FALSE]
          /\ ctorCalled' = FALSE
          /\ UNCHANGED <<factoryVars, session, isBusy, ops, failedCtorAt>>
  /\ UNCHANGED envVars

\* the setInterval callback reading every tag it sees, with no comparison to
\* lastAutoUID
TickWithoutDebounce(p) ==
  /\ ~MicrotaskPending
  /\ autoLoop # NULL
  /\ FreeSlot(p)
  /\ reply' = NoReply
  /\ IF ~autoEnabled \/ isBusy
     THEN /\ sent' = <<>>
          /\ ctorCalled' = FALSE
          /\ UNCHANGED <<factoryVars, session, coordVars, ops, failedCtorAt>>
     ELSE LET g == tryGetNfcService
              uid == getCurrentUID(g.session)
              entry == LockedEntry(g.session)
          IN /\ ApplyGet(g)
             /\ IF ~g.ok
                THEN /\ session' = g.session
                     /\ sent' = <<>>
                     /\ UNCHANGED <<coordVars, ops>>
                ELSE IF uid # NULL
                THEN IF entry = "ok"
                     THEN /\ session' = [g.session EXCEPT !._busy = TRUE]
                          /\ isBusy' = TRUE
                          /\ ops' = [ops EXCEPT ![p] =
                                       StartedOp("tick", uid, <<>>, <<>>)]
                          /\ sent' = <<>>
                          /\ UNCHANGED <<autoEnabled, autoLoop, timers,
                                         lastAutoUID>>
                     ELSE /\ session' = g.session
                          /\ isBusy' = FALSE
                          /\ sent' = <<Payload(TRUE, NoData, entry)>>
                          /\ UNCHANGED <<autoEnabled, autoLoop, timers,
                                         lastAutoUID, ops>>
                ELSE IF uid = NULL /\ lastAutoUID # NULL
                THEN /\ session' = g.session
                     /\ lastAutoUID' = NULL
                     /\ sent' = <<Payload(FALSE, NoData, NULL)>>
                     /\ UNCHANGED <<isBusy, autoEnabled, autoLoop, timers, ops>>
                ELSE /\ session' = g.session
                     /\ sent' = <<>>
                     /\ UNCHANGED <<coordVars, ops>>
  /\ UNCHANGED envVars

\* the setInterval callback without its `if (isBusy) return`
TickIgnoresBusy(p) ==
  /\ ~MicrotaskPending
  /\ autoLoop # NULL
  /\ FreeSlot(p)
  /\ reply' = NoReply
  /\ IF ~autoEnabled
     THEN /\ sent' = <<>>
          /\ ctorCalled' = FALSE
          /\ UNCHANGED <<factoryVars, session, coordVars, ops, failedCtorAt>>
     ELSE LET g == tryGetNfcService
              uid == getCurrentUID(g.session)
              entry == LockedEntry(g.session)
          IN /\ ApplyGet(g)
             /\ IF ~g.ok
                THEN /\ session' = g.session
                     /\ sent' = <<>>
                     /\ UNCHANGED <<coordVars, ops>>
                ELSE IF uid # NULL /\ uid # lastAutoUID
                THEN IF entry = "ok"
                     THEN /\ session' = [g.session EXCEPT !._busy = TRUE]
                          /\ isBusy' = TRUE
                          /\ ops' = [ops EXCEPT ![p] =
                                       StartedOp("tick", uid, <<>>, <<>>)]
                          /\ sent' = <<>>
                          /\ UNCHANGED <<autoEnabled, autoLoop, timers,
                                         lastAutoUID>>
                     ELSE /\ session' = g.session
                          /\ isBusy' = FALSE
                          /\ sent' = <<Payload(TRUE, NoData, entry)>>
                          /\ UNCHANGED <<autoEnabled, autoLoop, timers,
                                         lastAutoUID, ops>>
                ELSE IF uid = NULL /\ lastAutoUID # NULL
                THEN /\ session' = g.session
                     /\ lastAutoUID' = NULL
                     /\ sent' = <<Payload(FALSE, NoData, NULL)>>
                     /\ UNCHANGED <<isBusy, autoEnabled, autoLoop, timers, ops>>
                ELSE /\ session' = g.session
                     /\ sent' = <<>>
                     /\ UNCHANGED <<coordVars, ops>>
  /\ UNCHANGED envVars

\* the setInterval callback of startAutoLoop up to its first await or its
\* return
Tick(p) ==
  /\ ~MicrotaskPending
  /\ autoLoop # NULL
  /\ FreeSlot(p)
  /\ reply' = NoReply
  /\ IF ~autoEnabled \/ isBusy
     THEN /\ sent' = <<>>
          /\ ctorCalled' = FALSE
          /\ UNCHANGED <<factoryVars, session, coordVars, ops, failedCtorAt>>
     ELSE LET g == tryGetNfcService
              uid == getCurrentUID(g.session)
              entry == LockedEntry(g.session)
          IN /\ ApplyGet(g)
             /\ IF ~g.ok
                THEN /\ session' = g.session
                     /\ sent' = <<>>
                     /\ UNCHANGED <<coordVars, ops>>
                ELSE IF uid # NULL /\ uid # lastAutoUID
                THEN IF entry = "ok"
                     THEN /\ session' = [g.session EXCEPT !._busy = TRUE]
                          /\ isBusy' = TRUE
                          /\ ops' = [ops EXCEPT ![p] =
                                       StartedOp("tick", uid, <<>>, <<>>)]
                          /\ sent' = <<>>
                          /\ UNCHANGED <<autoEnabled, autoLoop, timers,
                                         lastAutoUID>>
                     ELSE /\ session' = g.session
                          /\ isBusy' = FALSE
                          /\ sent' = <<Payload(TRUE, NoData, entry)>>
                          /\ UNCHANGED <<autoEnabled, autoLoop, timers,
                                         lastAutoUID, ops>>
                ELSE IF uid = NULL /\ lastAutoUID # NULL
                THEN /\ session' = g.session
                     /\ lastAutoUID' = NULL
                     /\ sent' = <<Payload(FALSE, NoData, NULL)>>
                     /\ UNCHANGED <<isBusy, autoEnabled, autoLoop, timers, ops>>
                ELSE /\ session' = g.session
                     /\ sent' = <<>>
                     /\ UNCHANGED <<coordVars, ops>>
  /\ UNCHANGED envVars

\* ------------------------------------------------- settling driver calls
\* what the driver needs to carry out a call on the reader object it was
\* made on: the reader still attached, a tag on it
CanServe(op) == op.reader = ReaderRef /\ readerLive /\ readerCard # NULL

\* reader.authenticate resolves: _authenticateBlock returns true and the
\* locked function goes on to this.currentReader.read / .write
AuthAccepted(p) ==
  /\ ~MicrotaskPending
  /\ ops[p].pc = "auth"
  /\ CanServe(ops[p])
  /\ LET op == [ops[p] EXCEPT !.answers = Append(@, TRUE)]
     IN ops' = [ops EXCEPT ![p] =
                  IF session.currentReader = NULL
                  THEN [op EXCEPT !.pc = "unlock", !.ok = FALSE,
                                  !.err = TypeErrorMessage]
                  ELSE [op EXCEPT !.pc = "io", !.reader = session.currentReader]]
  /\ NoOutput
  /\ UNCHANGED <<envVars, factoryVars, session, coordVars>>

\* reader.authenticate rejects: the next key is tried on the same reader
\* object, or lastErr is thrown after the last key
AuthRejected(p, msg) ==
  /\ ~MicrotaskPending
  /\ ops[p].pc = "auth"
  /\ LET op == [ops[p] EXCEPT !.answers = Append(@, FALSE)]
     IN ops' = [ops EXCEPT ![p] =
                  IF op.key < Len(keys)
                  THEN [op EXCEPT !.key = @ + 1,
                                  !.tried = Append(@, keys[op.key + 1])]
                  ELSE [op EXCEPT !.pc = "unlock", !.ok = FALSE, !.err = msg]]
  /\ NoOutput
  /\ UNCHANGED <<envVars, factoryVars, session, coordVars>>

\* reader.read / reader.write resolves
IoDone(p) ==
  /\ ~MicrotaskPending
  /\ ops[p].pc = "io"
  /\ CanServe(ops[p])
  /\ IF ops[p].kind = "write"
     THEN /\ mem' = [mem EXCEPT ![readerCard] = ops[p].buf]
          /\ written' = [written EXCEPT ![readerCard] = ops[p].args]
          /\ ops' = [ops EXCEPT ![p].pc = "unlock", ![p].ok = TRUE,
                                ![p].card = readerCard]
     ELSE /\ mem' = mem
          /\ written' = written
          /\ ops' = [ops EXCEPT ![p].pc = "unlock", ![p].ok = TRUE,
                                ![p].data = <<Decode(mem[readerCard])>>,
                                ![p].card = readerCard]
  /\ NoOutput
  /\ UNCHANGED <<now, pcscAvailable, readerLive, readerCard, factoryVars,
                 session, coordVars>>

\* reader.read / reader.write rejects
IoFailed(p, msg) ==
  /\ ~MicrotaskPending
  /\ ops[p].pc = "io"
  /\ ops' = [ops EXCEPT ![p].pc = "unlock", ![p].ok = FALSE, ![p].err = msg]
  /\ NoOutput
  /\ UNCHANGED <<envVars, factoryVars, session, coordVars>>

\* _withLock releasing the lock after the return of fn() only, with no
\* finally
UnlockOnSuccessOnly(p) ==
  /\ ops[p].pc = "unlock"
  /\ session' = IF ops[p].ok THEN [session EXCEPT !._busy = FALSE] ELSE session
  /\ ops' = [ops EXCEPT ![p].pc = "deliver"]
  /\ NoOutput
  /\ UNCHANGED <<envVars, factoryVars, coordVars>>

\* _withLock's finally
Unlock(p) ==
  /\ ops[p].pc = "unlock"
  /\ session' = [session EXCEPT !._busy = FALSE]
  /\ ops' = [ops EXCEPT ![p].pc = "deliver"]
  /\ NoOutput
  /\ UNCHANGED <<envVars, factoryVars, coordVars>>

\* the continuations with the tick assigning lastAutoUID before its await
\* of readTag, so that a failed read records the UID too
DeliverRecordsFailedUid(p) ==
  LET op == ops[p]
  IN /\ op.pc = "deliver"
     /\ ops' = [ops EXCEPT ![p] = IdleOp]
     /\ isBusy' = FALSE
     /\ CASE op.kind = "read" ->
               /\ reply' = IF op.ok
                           THEN [req |-> "read", success |-> TRUE,
                                 data |-> op.data[1]]
                           ELSE FailReply("read", op.err)
               /\ sent' = <<>>
               /\ lastAutoUID' = lastAutoUID
          [] op.kind = "write" ->
               /\ reply' = IF op.ok
                           THEN [req |-> "write", success |-> TRUE]
                           ELSE FailReply("write", op.err)
               /\ sent' = <<>>
               /\ lastAutoUID' = lastAutoUID
          [] op.kind = "tick" ->
               /\ reply' = NoReply
               /\ sent' = IF op.ok THEN <<Payload(TRUE, op.data, NULL)>>
                          ELSE <<Payload(TRUE, NoData, op.err)>>
               /\ lastAutoUID' = op.uid
          [] op.kind = "auto" ->
               /\ reply' = [req |-> "auto", enabled |-> TRUE]
               /\ sent' = IF op.ok THEN <<Payload(TRUE, op.data, NULL)>>
                          ELSE <<Payload(TRUE, NoData, op.err)>>
               /\ lastAutoUID' = IF op.ok THEN op.uid ELSE lastAutoUID
     /\ ctorCalled' = FALSE
     /\ UNCHANGED <<envVars, factoryVars, session, autoEnabled, autoLoop,
                    timers, failedCtorAt>>

\* the continuations with the manual handlers lacking their
\* finally { isBusy = false }
DeliverKeepsBusy(p) ==
  LET op == ops[p]
  IN /\ op.pc = "deliver"
     /\ ops' = [ops EXCEPT ![p] = IdleOp]
     /\ isBusy' = (op.kind \in {"read", "write"})
     /\ CASE op.kind = "read" ->
               /\ reply' = IF op.ok
                           THEN [req |-> "read", success |-> TRUE,
                                 data |-> op.data[1]]
                           ELSE FailReply("read", op.err)
               /\ sent' = <<>>
               /\ lastAutoUID' = lastAutoUID
          [] op.kind = "write" ->
               /\ reply' = IF op.ok
                           THEN [req |-> "write", success |-> TRUE]
                           ELSE FailReply("write", op.err)
               /\ sent' = <<>>
               /\ lastAutoUID' = lastAutoUID
          [] op.kind = "tick" ->
               /\ reply' = NoReply
               /\ sent' = IF op.ok THEN <<Payload(TRUE, op.data, NULL)>>
                          ELSE <<Payload(TRUE, NoData, op.err)>>
               /\ lastAutoUID' = IF op.ok THEN op.uid ELSE lastAutoUID
          [] op.kind = "auto" ->
               /\ reply' = [req |-> "auto", enabled |-> TRUE]
               /\ sent' = IF op.ok THEN <<Payload(TRUE, op.data, NULL)>>
                          ELSE <<Payload(TRUE, NoData, op.err)>>
               /\ lastAutoUID' = IF op.ok THEN op.uid ELSE lastAutoUID
     /\ ctorCalled' = FALSE
     /\ UNCHANGED <<envVars, factoryVars, session, autoEnabled, autoLoop,
                    timers, failedCtorAt>>

\* the handler's continuation after await: its try / catch / finally and
\* its return
Deliver(p) ==
  LET op == ops[p]
  IN /\ op.pc = "deliver"
     /\ ops' = [ops EXCEPT ![p] = IdleOp]
     /\ isBusy' = FALSE
     /\ CASE op.kind = "read" ->
               /\ reply' = IF op.ok
                           THEN [req |-> "read", success |-> TRUE,
                                 data |-> op.data[1]]
                           ELSE FailReply("read", op.err)
               /\ sent' = <<>>
               /\ lastAutoUID' = lastAutoUID
          [] op.kind = "write" ->
               /\ reply' = IF op.ok
                           THEN [req |-> "write", success |-> TRUE]
                           ELSE FailReply("write", op.err)
               /\ sent' = <<>>
               /\ lastAutoUID' = lastAutoUID
          [] op.kind = "tick" ->
               /\ reply' = NoReply
               /\ sent' = IF op.ok THEN <<Payload(TRUE, op.data, NULL)>>
                          ELSE <<Payload(TRUE, NoData, op.err)>>
               /\ lastAutoUID' = IF op.ok THEN op.uid ELSE lastAutoUID
          [] op.kind = "auto" ->
               /\ reply' = [req |-> "auto", enabled |-> TRUE]
               /\ sent' = IF op.ok THEN <<Payload(TRUE, op.data, NULL)>>
                          ELSE <<Payload(TRUE, NoData, op.err)>>
               /\ lastAutoUID' = IF op.ok THEN op.uid ELSE lastAutoUID
     /\ ctorCalled' = FALSE
     /\ UNCHANGED <<envVars, factoryVars, session, autoEnabled, autoLoop,
                    timers, failedCtorAt>>

\* the driver's events, its error events carrying one of texts
DriverEvent(texts) ==
  \/ PcscChange
  \/ ReaderAppeared
  \/ \E card \in Cards : CardInserted(card)
  \/ CardRemoved
  \/ \E err \in texts : ReaderError(err)
  \/ ReaderEnd
  \/ \E err \in texts : NfcError(err)

\* the requests of the presentation layer and the timer
Request ==
  \/ ReadyToShowInit
  \/ \E p \in Procs : RfidRead(p)
  \/ RfidStatus
  \/ \E p \in Procs, enable \in BOOLEAN : RfidAuto(p, enable)
  \/ \E p \in Procs : Tick(p)

\* the driver calls settling and the continuations they resume
Settle ==
  \/ \E p \in Procs : AuthAccepted(p)
  \/ \E p \in Procs, msg \in DriverMessages : AuthRejected(p, msg)
  \/ \E p \in Procs : IoDone(p)
  \/ \E p \in Procs, msg \in DriverMessages : IoFailed(p, msg)
  \/ \E p \in Procs : Unlock(p)
  \/ \E p \in Procs : Deliver(p)

Write(requests) ==
  \E p \in Procs, w \in requests : RfidWrite(p, w[1], w[2], w[3])

Tock == \E d \in TimeSteps : Advance(d)

\* the driver's events in full: errors of every classification, cards with
\* and without a uid
AnyDriverEvent ==
  \/ DriverEvent(DriverErrorTexts)
  \/ CardInserted(NoUidCard)

\* the session manager, the clock standing still
Next == DriverEvent(UnclassifiedTexts) \/ Request \/ Write(TypicalWrites) \/ Settle

Spec == Init /\ [][Next]_vars

\* the session manager without write requests, the clock running
NextClock == DriverEvent(UnclassifiedTexts) \/ Request \/ Settle \/ Tock

SpecClock == Init /\ [][NextClock]_vars

\* the session manager with every write request, the clock standing still
NextTag == DriverEvent(UnclassifiedTexts) \/ Request \/ Write(WriteRequests) \/ Settle

SpecTag == Init /\ [][NextTag]_vars

\* the session manager under every driver event, the clock standing still
\* and nothing written
NextDriver == AnyDriverEvent \/ Request \/ Settle

SpecDriver == Init /\ [][NextDriver]_vars

\* the timer's callback runs
Ticks == \E p \in Procs : Tick(p)

\* a pending driver call resolves, or a queued continuation runs
Progress ==
  \/ \E p \in Procs : AuthAccepted(p)
  \/ \E p \in Procs : IoDone(p)
  \/ \E p \in Procs : Unlock(p)
  \/ \E p \in Procs : Deliver(p)

\* the session manager with a driver whose calls all resolve: readers and
\* cards come and go, reads and enable / disable requests arrive, the timer
\* fires
NextLive ==
  \/ ReaderAppeared
  \/ \E card \in Cards : CardInserted(card)
  \/ CardRemoved
  \/ \E p \in Procs : RfidRead(p)
  \/ RfidStatus
  \/ \E p \in Procs, enable \in BOOLEAN : RfidAuto(p, enable)
  \/ Ticks
  \/ Progress

\* setInterval fires its callback again and again, and the driver and the
\* microtask queue leave no call or continuation pending for ever
SpecLive ==
  /\ Init
  /\ [][NextLive]_vars
  /\ SF_vars(Ticks)
  /\ WF_vars(Progress)

\* ---------------------------------------------------------------- claims
\* an authenticate/read/write sequence against the reader is in flight
InFlight(p) == ops[p].pc \in {"auth", "io"}

\* C1: at most one authenticate/read/write sequence against the reader is in
\* flight in any reachable state, however manual requests, enable requests
\* and ticks interleave.
C1_MutualExclusion == Cardinality({p \in Procs : InFlight(p)}) <= 1

\* a tick's read is in flight and the step just taken turned a manual read
\* away
C1_Witness ==
  /\ \E p \in Procs : InFlight(p) /\ ops[p].kind = "tick"
  /\ reply = BusyReply("read")

\* C2: in every _authenticateBlock call the vendor key is tried first; the
\* factory-default key is tried only after the vendor key was rejected and
\* never after it was accepted.
C2_VendorKeyFirst ==
  \A p \in Procs :
    LET t == ops[p].tried
        a == ops[p].answers
    IN /\ Len(t) <= 2
       /\ t # <<>> => t[1] = VendorKey
       /\ Len(t) = 2 => t[2] = DefaultKey /\ a # <<>> /\ a[1] = FALSE
       /\ (a # <<>> /\ a[1] = TRUE) => t = <<VendorKey>>

\* the vendor key was rejected and the factory-default key accepted
C2_Witness ==
  \E p \in Procs :
    /\ ops[p].tried = <<VendorKey, DefaultKey>>
    /\ ops[p].answers = <<FALSE, TRUE>>

\* C3: when a manual read or write reaches authentication and the driver
\* rejects both the vendor key and the factory-default key, the request
\* returns {success: false, messageKey: "nfcAuthFailed"}.
C3_AuthFailedKey ==
  [][\A p \in Procs :
       (/\ ops[p].pc = "deliver"
        /\ ops[p].kind \in {"read", "write"}
        /\ ops[p].answers = <<FALSE, FALSE>>
        /\ ops'[p].pc = "idle")
       => (reply'.success = FALSE /\ reply'.messageKey = "nfcAuthFailed")]_vars

\* a manual request arrives: one of the request handlers starts
ManualArrives(req) ==
  \E p \in Procs :
    IF req = "read" THEN RfidRead(p)
    ELSE \E w \in WriteRequests : RfidWrite(p, w[1], w[2], w[3])

\* C4: a manual read or write request that arrives while the busy flag is
\* held returns {success: false, messageKey: "busy"} and changes nothing: no
\* construction attempt, no driver call, and the busy flags, lastAutoUID and
\* the backoff state stay as they are.
C4_BusyRequestChangesNothing ==
  [][\A req \in {"read", "write"} :
       (isBusy /\ ManualArrives(req))
       => (/\ reply' = BusyReply(req)
           /\ sent' = <<>>
           /\ ~ctorCalled'
           /\ UNCHANGED <<envVars, factoryVars, failedCtorAt, session,
                          coordVars, ops>>)]_vars

\* an enable request's immediate read holds the flag and the step just taken
\* turned a write request away
C4_Witness ==
  /\ isBusy
  /\ session._busy
  /\ \E p \in Procs : ops[p].kind = "auto" /\ ops[p].pc = "io"
  /\ reply = BusyReply("write")

\* C5: a manual read request that arrives while the coordinator is not busy
\* and no reader is available (no session and the constructor fails or
\* gives a session not yet told of a reader, or a session whose reader
\* handle is null) returns {success: false, messageKey: "nfcNotConnected"},
\* starts no driver call, and a status request made just before it reports
\* connected: false.
NoReaderAvailable == nfcService = NULL \/ session.currentReader = NULL

C5_ReadWithoutReader ==
  [][\A p \in Procs :
       (~isBusy /\ NoReaderAvailable /\ RfidRead(p))
       => /\ reply' = [req |-> "read", success |-> FALSE,
                       messageKey |-> "nfcNotConnected",
                       details |-> "NFC_NOT_CONNECTED"]
          /\ ops' = ops
          /\ ~isBusy'
          /\ StatusReply(tryGetNfcService).connected = FALSE]_vars

C5_Witness ==
  /\ nfcService # NULL
  /\ session.currentReader = NULL
  /\ ~readerLive
  /\ ~isBusy
  /\ reply = FailReply("read", "NFC_NOT_CONNECTED")

\* C6: a status request and a timer tick never run the session constructor
\* and leave nfcService, nfcInitFailedAt and nfcInitLastErr as they were,
\* inside the retry window and outside it; without a session the status
\* request returns connected false, no reader name, cardPresent false and
\* uid null, and the tick does nothing.
IsTick == \E p \in Procs : Tick(p)

C6_StatusAndTickNeverConstruct ==
  [][(RfidStatus \/ IsTick)
     => /\ ~ctorCalled'
        /\ UNCHANGED <<factoryVars, failedCtorAt>>
        /\ (RfidStatus /\ nfcService = NULL)
           => reply' = [req |-> "status", connected |-> FALSE,
                        readerName |-> NULL, cardPresent |-> FALSE,
                        uid |-> NULL]
        /\ (IsTick /\ nfcService = NULL)
           => (sent' = <<>> /\ UNCHANGED <<session, coordVars, ops>>)]_vars

C6_Witness ==
  /\ reply.req = "status"
  /\ nfcService = NULL
  /\ pcscAvailable
  /\ failedCtorAt # 0
  /\ nfcInitFailedAt = failedCtorAt
  /\ now - failedCtorAt >= NFC_RETRY_AFTER_MS

\* C7: with no session and the constructor having last thrown at time t, a
\* getNfcService call without forceRetry at a time before t + 5000 throws
\* without running the constructor and leaves the retry state alone; one
\* at t + 5000 or later, and every call with forceRetry, runs the
\* constructor; a constructor call that succeeds sets nfcInitFailedAt to 0
\* and nfcInitLastErr to null.
ForcedCall ==
  \/ ~isBusy /\ (ManualArrives("read") \/ ManualArrives("write"))
  \/ \E p \in Procs : RfidAuto(p, TRUE)

C7_RetryWindow ==
  [][/\ (nfcService = NULL /\ failedCtorAt # 0)
        => /\ (ReadyToShowInit /\ now < failedCtorAt + 5000)
              => /\ ~ctorCalled'
                 /\ reply'.threw
                 /\ UNCHANGED <<factoryVars, failedCtorAt>>
           /\ (ReadyToShowInit /\ now >= failedCtorAt + 5000) => ctorCalled'
           /\ ForcedCall => ctorCalled'
     /\ (ctorCalled' /\ nfcService' # NULL)
        => (nfcInitFailedAt' = 0 /\ nfcInitLastErr' = NULL)
     /\ (ctorCalled' /\ nfcService' = NULL)
        => (nfcInitFailedAt' = now /\ nfcInitLastErr' # NULL)]_vars

C7_Witness ==
  /\ reply = [req |-> "ready-to-show", threw |-> TRUE]
  /\ ~ctorCalled
  /\ pcscAvailable
  /\ failedCtorAt # 0
  /\ now = failedCtorAt + 4999

\* C8: once nfcService holds a session it holds that session for ever: no
\* step runs the constructor again or resets the reference, whether the
\* reader is connected, has ended or the driver has reported an error, and
\* the getters hand out that session (the status request answers from it).
C8_SessionKept ==
  [][nfcService # NULL
     => /\ nfcService' = nfcService
        /\ ~ctorCalled'
        /\ UNCHANGED <<nfcInitFailedAt, nfcInitLastErr>>
        /\ RfidStatus => (reply' = getStatus(session) /\ session' = session)
        /\ ReadyToShowInit => (~reply'.threw /\ session' = session)]_vars

C8_Witness ==
  /\ nfcService # NULL
  /\ ~session.isConnected
  /\ session.lastError # NULL
  /\ reply = [req |-> "ready-to-show", threw |-> FALSE]
  /\ ~ctorCalled

\* C9 as stated: while auto-detect stays enabled, a step sends at most one
\* notification; a {present: true} is sent exactly when lastAutoUID moves to
\* another UID, a {present: false} exactly when it moves from a UID to
\* null; a tick or an enable request that observes the UID already in
\* lastAutoUID sends nothing.
Sends(present) == sent' # <<>> /\ sent'[1].present = present

UidTransition == lastAutoUID' # NULL /\ lastAutoUID' # lastAutoUID

Removal == lastAutoUID # NULL /\ lastAutoUID' = NULL

EnableReadReturns(p) ==
  ops[p].pc = "deliver" /\ ops[p].kind = "auto" /\ ops'[p].pc = "idle"

C9_OneNotificationPerTransition ==
  [][(autoEnabled /\ autoEnabled')
     => /\ Len(sent') <= 1
        /\ Sends(TRUE) <=> UidTransition
        /\ Sends(FALSE) <=> Removal
        /\ \A p \in Procs :
             (EnableReadReturns(p) /\ ops[p].uid = lastAutoUID)
             => sent' = <<>>]_vars

\* C9 as the code has it: while auto-detect stays enabled, a step sends at
\* most one notification; lastAutoUID moving to another UID comes with
\* exactly one {present: true} carrying the tag data and no error, and
\* lastAutoUID moving from a UID to null with exactly one {present: false};
\* a {present: false} is sent only then; a tick that observes the UID
\* already in lastAutoUID (or none, with none recorded) sends nothing and
\* starts no read. A {present: true} without a move of lastAutoUID is either
\* the report of a failed read (tagData null, the error set) or the
\* immediate read of an enable request, which notifies once whether or not
\* the UID is the one already in lastAutoUID.
C9_NotificationPerTransition ==
  [][(autoEnabled /\ autoEnabled')
     => /\ Len(sent') <= 1
        /\ UidTransition
           => /\ sent' # <<>>
              /\ sent'[1].present
              /\ sent'[1].tagData # NoData
              /\ sent'[1].error = NULL
        /\ Removal => sent' = <<Payload(FALSE, NoData, NULL)>>
        /\ Sends(FALSE) => Removal
        /\ \A p \in Procs :
             (Tick(p) /\ nfcService # NULL
              /\ getCurrentUID(session) = lastAutoUID)
             => (sent' = <<>> /\ ops' = ops /\ lastAutoUID' = lastAutoUID)
        /\ (Sends(TRUE) /\ ~UidTransition)
           => \/ sent'[1].tagData = NoData /\ sent'[1].error # NULL
              \/ \E p \in Procs : EnableReadReturns(p)
        /\ \A p \in Procs :
             EnableReadReturns(p)
             => (Len(sent') = 1 /\ sent'[1].present)]_vars

C9_Witness ==
  /\ autoEnabled
  /\ reply = NoReply
  /\ lastAutoUID = "B"
  /\ session.lastUID = "B"
  /\ sent # <<>>
  /\ sent[1].present
  /\ sent[1].tagData # NoData
  /\ mem["B"] # ZeroBlock

\* C10: a read that succeeds on a tag whose last successful write carried
\* the codes (material, color, manufacturer) returns a record with those
\* three codes and the raw block [material, color, manufacturer, 0 x 13].
ReadReturns(p) ==
  /\ ops[p].pc = "deliver"
  /\ ops[p].kind = "read"
  /\ ops[p].ok
  /\ ops'[p].pc = "idle"

C10_RoundTrip ==
  [][\A p \in Procs :
       (ReadReturns(p) /\ written[ops[p].card] # <<>>)
       => LET w == written[ops[p].card]
          IN /\ reply'.success
             /\ reply'.data.material = w[1]
             /\ reply'.data.color = w[2]
             /\ reply'.data.manufacturer = w[3]
             /\ reply'.data.rawData =
                  [i \in 1..BlockLen |-> IF i <= 3 THEN w[i] ELSE 0]]_vars

\* C11: both busy flags are held exactly while an invocation is between its
\* first authenticate and its finally blocks: with no invocation suspended
\* both isBusy and _busy are false, whatever way the last one ended
\* (success, rejected keys, failed read or write, a constructor that threw,
\* the reader ending under it); while driver calls are awaited both are
\* true; and _busy is already false when the handler's continuation
\* delivers the result.
C11_FlagsReleased ==
  /\ (\A p \in Procs : ops[p].pc = "idle") => (~isBusy /\ ~session._busy)
  /\ \A p \in Procs :
       /\ ops[p].pc \in {"auth", "io", "unlock"} => (isBusy /\ session._busy)
       /\ ops[p].pc = "deliver" => (isBusy /\ ~session._busy)

C11_Witness ==
  /\ \A p \in Procs : ops[p].pc = "idle"
  /\ nfcService # NULL
  /\ ~readerLive
  /\ reply = FailReply("read", "DRIVER_ERROR")
  /\ ~isBusy
  /\ ~session._busy

\* C12: an enable request whose getNfcService throws (no session, and the
\* constructor fails) returns {enabled: false, messageKey:
\* "nfcNotConnected"} and leaves autoEnabled false, no interval set and
\* lastAutoUID null.
C12_EnableWithoutSession ==
  [][\A p \in Procs :
       (nfcService = NULL /\ ~pcscAvailable /\ RfidAuto(p, TRUE))
       => /\ reply' = [req |-> "auto", enabled |-> FALSE,
                       messageKey |-> "nfcNotConnected"]
          /\ ctorCalled'
          /\ ~autoEnabled'
          /\ autoLoop' = NULL
          /\ timers' = 0
          /\ lastAutoUID' = NULL
          /\ ops' = ops]_vars

C12_Witness ==
  /\ reply = [req |-> "auto", enabled |-> FALSE,
              messageKey |-> "nfcNotConnected"]
  /\ ctorCalled
  /\ nfcService = NULL
  /\ ~autoEnabled
  /\ autoLoop = NULL
  /\ timers = 0
  /\ lastAutoUID = NULL

\* C13: a status request made while there is no session and the constructor
\* has thrown before returns the recorded construction error: errorCode,
\* errorMessage and errorAt, none of them null.
C13_StatusReportsInitError ==
  [][(RfidStatus /\ nfcService = NULL /\ nfcInitLastErr # NULL)
     => /\ {"errorCode", "errorMessage", "errorAt"} \subseteq DOMAIN reply'
        /\ reply'.errorCode # NULL
        /\ reply'.errorMessage # NULL
        /\ reply'.errorAt # 0]_vars

\* C14: while auto-detect is disabled (from the return of a disable request
\* to the next enable request) lastAutoUID is null and no {present: true}
\* notification is sent, also when a read started by a tick or by an enable
\* request settles after the disable; the disable request itself sends
\* exactly one {present: false, tagData: null, error: null}.
DisableReturns ==
  /\ reply' = [req |-> "auto", enabled |-> FALSE]
  /\ \E p \in Procs : RfidAuto(p, FALSE)

C14_DisabledStaysReset ==
  [][/\ DisableReturns
        => /\ ~autoEnabled'
           /\ lastAutoUID' = NULL
           /\ sent' = <<Payload(FALSE, NoData, NULL)>>
     /\ (~autoEnabled /\ ~autoEnabled')
        => /\ lastAutoUID' = NULL
           /\ ~Sends(TRUE)]_vars

\* C15: the number of intervals set and not cleared is 1 while autoEnabled
\* and 0 otherwise, and autoLoop holds that interval; an enable request
\* made while the loop runs sets no second interval.
C15_OneTimer ==
  /\ timers = IF autoEnabled THEN 1 ELSE 0
  /\ autoLoop # NULL <=> autoEnabled

C15_Witness ==
  /\ autoEnabled
  /\ timers = 1
  /\ autoLoop = TimerRef
  /\ lastAutoUID # NULL
  /\ reply = [req |-> "auto", enabled |-> TRUE]
  /\ sent = <<>>

\* C16: when the read a tick started for a UID other than lastAutoUID fails
\* (keys rejected, read rejected, reader gone), the tick sends {present:
\* true, tagData: null, error: the message}, leaves lastAutoUID as it was,
\* and clears isBusy with _busy already clear; the same when readTag throws
\* at once. If the session still shows that UID afterwards, it differs
\* from lastAutoUID, so the next tick reads again.
TickReadFails(p) ==
  /\ ops[p].pc = "deliver"
  /\ ops[p].kind = "tick"
  /\ ~ops[p].ok
  /\ ops'[p].pc = "idle"

TickReadThrows(p) ==
  /\ Tick(p)
  /\ autoEnabled
  /\ ~isBusy
  /\ nfcService # NULL
  /\ getCurrentUID(session) \notin {NULL, lastAutoUID}
  /\ LockedEntry(session) # "ok"

C16_TickFailureRetried ==
  [][\A p \in Procs :
       /\ TickReadFails(p)
          => /\ sent' = <<[present |-> TRUE, tagData |-> NoData,
                           error |-> ops[p].err]>>
             /\ ops[p].err # NULL
             /\ lastAutoUID' = lastAutoUID
             /\ ~isBusy'
             /\ ~session'._busy
             /\ ops[p].uid # lastAutoUID'
       /\ TickReadThrows(p)
          => /\ sent' = <<[present |-> TRUE, tagData |-> NoData,
                           error |-> LockedEntry(session)]>>
             /\ lastAutoUID' = lastAutoUID
             /\ ~isBusy'
             /\ ops' = ops]_vars

C16_Witness ==
  /\ autoEnabled
  /\ reply = NoReply
  /\ sent = <<Payload(TRUE, NoData, "DRIVER_ERROR")>>
  /\ session.lastUID # NULL
  /\ session.lastUID # lastAutoUID
  /\ readerLive
  /\ ~isBusy
  /\ ~session._busy

\* C17: whatever driver events the session has seen, getStatus reports
\* cardPresent true exactly when it reports a uid.
C17_CardAndUidTogether ==
  nfcService # NULL
  => (getStatus(session).cardPresent <=> getStatus(session).uid # NULL)

\* C18: the record a successful read returns has material, color and
\* manufacturer equal to bytes 0, 1 and 2 of the block it read, a stored 0
\* included.
C18_ReadDecodesBytes ==
  [][\A p \in Procs :
       ReadReturns(p)
       => /\ reply'.success
          /\ Len(reply'.data.rawData) = BlockLen
          /\ reply'.data.rawData = mem[ops[p].card]
          /\ reply'.data.material = reply'.data.rawData[1]
          /\ reply'.data.color = reply'.data.rawData[2]
          /\ reply'.data.manufacturer = reply'.data.rawData[3]]_vars

\* C19: a reader's error event changes only lastError, lastErrorCode and
\* lastErrorAt (the text, its classification, the time) and leaves
\* isConnected, currentReader, lastUID and reader.card alone; the driver's
\* global error event records the error the same way, sets isConnected
\* false and clears currentReader and lastUID, so that no card is reported;
\* a reader appearing clears the three error fields.
ErrorCodeOf(err) ==
  IF err = "SCard_E_No_Service" THEN "PCSC_SERVICE_NOT_RUNNING" ELSE "UNKNOWN"

ErrorRecorded(err) ==
  /\ session'.lastError = err
  /\ session'.lastErrorCode = ErrorCodeOf(err)
  /\ session'.lastErrorAt = now

C19_ErrorEventEffects ==
  [][/\ \A err \in DriverErrorTexts :
          /\ ReaderError(err)
             => /\ ErrorRecorded(err)
                /\ session'.isConnected = session.isConnected
                /\ session'.currentReader = session.currentReader
                /\ session'.lastUID = session.lastUID
                /\ session'._busy = session._busy
                /\ readerCard' = readerCard
          /\ NfcError(err)
             => /\ ErrorRecorded(err)
                /\ ~session'.isConnected
                /\ session'.currentReader = NULL
                /\ session'.lastUID = NULL
                /\ session'._busy = session._busy
                /\ ~StatusReply(tryGetNfcService)'.cardPresent
     /\ ReaderAppeared
        => /\ session'.lastError = NULL
           /\ session'.lastErrorCode = NULL
           /\ session'.lastErrorAt = 0
           /\ session'.isConnected
           /\ session'.currentReader = ReaderRef]_vars

C19_Witness ==
  /\ session.lastError = "SCard_E_No_Service"
  /\ session.lastErrorCode = "PCSC_SERVICE_NOT_RUNNING"
  /\ session.isConnected
  /\ session.currentReader = ReaderRef
  /\ session.lastUID # NULL
  /\ readerCard # NULL

\* C20: the session lock is held only while the coordinator flag is held,
\* and no request result and no notification carries the session's 'Busy'
\* error: a busy result is the coordinator's own, which has no details.
C20_LockInsideFlag ==
  /\ session._busy => isBusy
  /\ "details" \in DOMAIN reply => reply.details # "Busy"
  /\ \A i \in 1..Len(sent) : sent[i].error # "Busy"
  /\ \A p \in Procs : ops[p].err # "Busy"

C20_Witness ==
  /\ reply = [req |-> "write", success |-> FALSE, messageKey |-> "busy"]
  /\ isBusy
  /\ session._busy
  /\ \E p \in Procs : ops[p].kind = "tick" /\ ops[p].pc = "auth"

\* C21: when the read started by a tick or by an enable request succeeds,
\* so that lastAutoUID is set to the UID it saw and {present: true, tagData}
\* is sent, the data is that of the tag with that UID: the tag the read
\* was carried out on is the one whose UID was seen, also when cards were
\* removed and inserted while the driver calls were pending.
AutoReadReturns(p) ==
  /\ ops[p].pc = "deliver"
  /\ ops[p].kind \in {"tick", "auto"}
  /\ ops[p].ok
  /\ ops'[p].pc = "idle"

C21_DataOfNotifiedUid ==
  [][\A p \in Procs :
       AutoReadReturns(p)
       => /\ lastAutoUID' = ops[p].uid
          /\ sent' = <<Payload(TRUE, ops[p].data, NULL)>>
          /\ CardUid(ops[p].card) = lastAutoUID']_vars

\* C22 as stated: with auto-detect enabled and a tag with UID u staying on
\* the connected reader, however manual reads interleave, lastAutoUID
\* becomes u with a {present: true} notification carrying the tag's data
\* (or the tag, the reader or auto-detect goes away first).
Stable(u) ==
  /\ autoEnabled
  /\ readerLive
  /\ readerCard = u
  /\ session.currentReader = ReaderRef
  /\ session.isConnected
  /\ session.lastUID = u

Notified(u) ==
  /\ lastAutoUID = u
  /\ sent # <<>>
  /\ sent[1].present
  /\ sent[1].tagData # NoData
  /\ sent[1].error = NULL

C22_EventuallyNotified ==
  \A u \in Cards :
    (Stable(u) /\ lastAutoUID # u) ~> (~Stable(u) \/ Notified(u))

\* C22 as the code has it: if from some point on a tag with UID u stays on
\* the connected reader with auto-detect enabled and no manual read or
\* write holds the busy flag any more, then from some point on lastAutoUID
\* is u (it is set only together with a {present: true} notification
\* carrying the data read). Manual requests that take the flag again and
\* again can keep every tick from reading.
ManualQuiet == \A p \in Procs : ops[p].kind \notin {"read", "write"}

C22_NotifiedOnceManualQuiet ==
  \A u \in Cards :
    <>[](Stable(u) /\ ManualQuiet) => <>[](Stable(u) /\ lastAutoUID = u)

C22_Witness ==
  /\ Stable("A")
  /\ Notified("A")
  /\ reply = NoReply
  /\ \A p \in Procs : ops[p].pc = "idle"

====
